---- MODULE Spec2Model ----
(***************************************************************************)
(* The k-way merge iterator of table/merge_iterator.go.                    *)
(*                                                                         *)
(* Every iterator (a leaf source or a MergeIterator) is an object of a     *)
(* heap, named by its index; y.Iterator values and the pointers node.iter, *)
(* node.merge and MergeIterator.second are heap indices (Nil for nil).     *)
(* Every method is an operator from a heap to the heap after the call.     *)
(***************************************************************************)
EXTENDS Integers, Sequences, FiniteSets, TLC

\* Bounds of the model.
MaxIters == 3   \* sources passed to NewMergeIterator
MaxKey == 2     \* keys are 1..MaxKey
MaxTotal == 3   \* entries of all the sources together

VARIABLES
    heap,      \* the objects: heap[i] is a leaf source or a MergeIterator
    iters,     \* the list passed to NewMergeIterator (heap indices)
    reverse,   \* the flag passed to NewMergeIterator
    root,      \* the y.Iterator NewMergeIterator returned (Nil for nil)
    crashed,   \* "none", or the panic that ended the program
    last,      \* the last call that moved root: [op, key]
    scan,      \* TRUE while the calls since the last Rewind were all Next
    out,       \* while scan: the <<key, value>> pairs the traversal produced
    closeCnt,  \* per leaf source: how often its Close was called
    closeRes   \* per iterator: the error its Close returned (NotCalled before)

vars == <<heap, iters, reverse, root, crashed, last, scan, out, closeCnt, closeRes>>

Nil == 0
NoKey == 0
Keys == 1..MaxKey

(***************************************************************************)
(* y.CompareKeys: a total order on keys, here the order of the integers.   *)
(***************************************************************************)
CompareKeys(a, b) == IF a < b THEN -1 ELSE IF a > b THEN 1 ELSE 0

(***************************************************************************)
(* Leaf sources: the y.Iterator contract.  A leaf holds its keys in the    *)
(* order it yields them (ascending, or descending when reversed) and a     *)
(* position; pos = 0 is an iterator not positioned by Rewind or Seek yet.   *)
(***************************************************************************)
IsSorted(s, rev) ==
    \A i \in 1..(Len(s) - 1) :
        IF rev THEN s[i] >= s[i + 1] ELSE s[i] <= s[i + 1]

IsStrict(s) == \A i, j \in 1..Len(s) : i /= j => s[i] /= s[j]

SortedSeqs(rev, len) ==
    {s \in UNION {[1..l -> Keys] : l \in 0..len} : IsSorted(s, rev)}

\* A leaf source as it is handed to NewMergeIterator: nothing resets it, so it
\* is at any position p, unpositioned (0) or on one of its entries.
NewLeaf(s, rev, p) == [kind |-> "leaf", keys |-> s, reversed |-> rev, pos |-> p]

RECURSIVE SumLens(_, _)
SumLens(lens, n) == IF n = 0 THEN 0 ELSE SumLens(lens, n - 1) + lens[n]

\* The lengths n sources can have that hold at most total entries together.
SourceLens(n, total) == {lens \in [1..n -> 0..total] : SumLens(lens, n) <= total}

\* The lists of n sorted sources of the lengths lens.
RECURSIVE SourceLists(_, _, _)
SourceLists(n, rev, lens) ==
    IF n = 0 THEN {<<>>}
    ELSE {Append(rest, NewLeaf(s, rev, p)) :
             rest \in SourceLists(n - 1, rev, lens),
             s \in {t \in SortedSeqs(rev, lens[n]) : Len(t) = lens[n]},
             p \in 0..lens[n]}

LeafValid(l) == l.pos >= 1 /\ l.pos <= Len(l.keys)

LeafKey(l) == l.keys[l.pos]

LeafNext(l) == [l EXCEPT !.pos = @ + 1]

LeafRewind(l) == [l EXCEPT !.pos = 1]

LeafSeek(l, k) ==
    LET hits == {i \in 1..Len(l.keys) :
                    IF l.reversed THEN l.keys[i] <= k ELSE l.keys[i] >= k}
    IN [l EXCEPT !.pos = IF hits = {} THEN Len(l.keys) + 1
                         ELSE CHOOSE i \in hits : \A j \in hits : i <= j]

(***************************************************************************)
(* type node struct                                                        *)
(***************************************************************************)
ZeroNode == [valid |-> FALSE, key |-> NoKey, iter |-> Nil, merge |-> Nil, concat |-> Nil]

IsMerge(h, it) == it /= Nil /\ h[it].kind = "merge"

\* func (n *node) setIterator(iter y.Iterator); no ConcatIterator exists here,
\* so the second type assertion always yields nil.
setIterator(h, n, it) ==
    [n EXCEPT !.iter = it,
              !.merge = IF IsMerge(h, it) THEN it ELSE Nil,
              !.concat = Nil]

\* MergeIterator.Valid / Key, and the same calls through the interface.
Valid(h, it) == IF IsMerge(h, it) THEN h[it].small.valid ELSE LeafValid(h[it])

Key(h, it) == IF IsMerge(h, it) THEN h[it].small.key ELSE LeafKey(h[it])

RECURSIVE Value(_, _)
Value(h, it) ==
    IF IsMerge(h, it) THEN Value(h, h[it].small.iter)
    ELSE <<it, h[it].pos>>

\* Mutant of setKey: valid is refreshed and key is not.
setKeyValidOnly(h, m, s) ==
    LET n == h[m][s]
        v == IF n.merge /= Nil THEN h[n.merge].small.valid ELSE Valid(h, n.iter)
    IN [h EXCEPT ![m][s] = [n EXCEPT !.valid = v]]

\* Mutant of setKey: the fast path takes the key of the child's big node.
setKeyBigKey(h, m, s) ==
    LET n == h[m][s]
        v == IF n.merge /= Nil THEN h[n.merge].small.valid ELSE Valid(h, n.iter)
        k == IF ~v THEN n.key
             ELSE IF n.merge /= Nil THEN h[n.merge].big.key
             ELSE Key(h, n.iter)
    IN [h EXCEPT ![m][s] = [n EXCEPT !.valid = v, !.key = k]]

\* func (n *node) setKey(), on the node in slot s ("small" or "big") of m.
setKey(h, m, s) ==
    LET n == h[m][s]
        v == IF n.merge /= Nil THEN h[n.merge].small.valid
             ELSE IF n.concat /= Nil THEN Valid(h, n.concat)
             ELSE Valid(h, n.iter)
        k == IF ~v THEN n.key
             ELSE IF n.merge /= Nil THEN h[n.merge].small.key
             ELSE IF n.concat /= Nil THEN Key(h, n.concat)
             ELSE Key(h, n.iter)
    IN [h EXCEPT ![m][s] = [n EXCEPT !.valid = v, !.key = k]]

\* Mutant of swap: big is copied to small and small is lost.
swapLossy(h, m) == [h EXCEPT ![m].small = h[m].big]

\* func (mi *MergeIterator) swap()
swap(h, m) == [h EXCEPT ![m].small = h[m].big, ![m].big = h[m].small]

RECURSIVE Next(_, _)
RECURSIVE Rewind(_, _)
RECURSIVE Seek(_, _, _)
RECURSIVE fixLoop(_, _)

\* func (n *node) next()
nodeNext(h, m, s) ==
    LET n == h[m][s]
        h1 == IF n.merge /= Nil THEN Next(h, n.merge)
              ELSE IF n.concat /= Nil THEN Next(h, n.concat)
              ELSE Next(h, n.iter)
    IN setKey(h1, m, s)

\* func (n *node) rewind()
nodeRewind(h, m, s) == setKey(Rewind(h, h[m][s].iter), m, s)

\* func (n *node) seek(key []byte)
nodeSeek(h, m, s, k) == setKey(Seek(h, h[m][s].iter, k), m, s)

\* Mutants of fixUnequal: a fix that never exchanges, and one that ignores
\* mi.reverse.
fixUnequalNoSwap(h, m, cmp) == h

fixUnequalForward(h, m, cmp) == IF cmp > 0 THEN swap(h, m) ELSE h

\* fix, lines 129-138: the keys differ; exchange small and big when they are
\* out of order for the direction.
fixUnequal(h, m, cmp) ==
    IF h[m].reverse THEN
        IF cmp < 0 THEN swap(h, m) ELSE h
    ELSE
        IF cmp > 0 THEN swap(h, m) ELSE h

\* Mutant of fixEqual: equal keys are left as they are.
fixEqualKeep(h, m) == h

\* Mutant of forwardSecond: the iterator in the small slot is forwarded,
\* whichever it is.
forwardSmall(h, m) == setKey(Next(h, h[m].small.iter), m, "small")

\* fix, lines 108-118: mi.second.Next(), then the node that wraps mi.second is
\* refreshed; a second that is in neither slot is the panic.
forwardSecond(h, m) ==
    LET second == h[m].second
        h1 == Next(h, second)
    IN  IF second = h1[m].small.iter THEN setKey(h1, m, "small")
        ELSE IF second = h1[m].big.iter THEN setKey(h1, m, "big")
        ELSE [h1 EXCEPT ![m].panic = TRUE]

\* fix, lines 106-128: the keys are equal; forward mi.second, and go round the
\* loop again while it is valid.
fixEqual(h, m) ==
    LET second == h[m].second
        h2 == forwardSecond(h, m)
        secondValid == IF second = h2[m].small.iter THEN h2[m].small.valid
                       ELSE IF second = h2[m].big.iter THEN h2[m].big.valid
                       ELSE FALSE
    IN  IF h2[m].panic THEN h2
        ELSE IF ~secondValid THEN
            IF second = h2[m].small.iter /\ h2[m].big.valid
            THEN swap(h2, m) ELSE h2
        ELSE fixLoop(h2, m)

\* Mutant of fixLoop: no exchange when the loop ends on an invalid small.
fixLoopNoFinalSwap(h, m) ==
    IF ~h[m].small.valid THEN h
    ELSE
        LET cmp == CompareKeys(h[m].small.key, h[m].big.key) IN
        IF cmp = 0 THEN fixEqual(h, m) ELSE fixUnequal(h, m, cmp)

\* fix, lines 103-140: the for loop, entered with mi.big.valid.
fixLoop(h, m) ==
    IF ~h[m].small.valid THEN swap(h, m)
    ELSE
        LET cmp == CompareKeys(h[m].small.key, h[m].big.key) IN
        IF cmp = 0 THEN fixEqual(h, m) ELSE fixUnequal(h, m, cmp)

\* func (mi *MergeIterator) fix()
fix(h, m) == IF ~h[m].big.valid THEN h ELSE fixLoop(h, m)

\* Mutant of MergeNext: small is advanced and the order is not restored.
MergeNextNoFix(h, m) == nodeNext(h, m, "small")

\* func (mi *MergeIterator) Next(), and Next through the interface.
MergeNext(h, m) == fix(nodeNext(h, m, "small"), m)

Next(h, it) ==
    IF IsMerge(h, it) THEN MergeNext(h, it)
    ELSE [h EXCEPT ![it] = LeafNext(h[it])]

\* Mutant of MergeRewind: only the small child is rewound.
MergeRewindSmallOnly(h, m) == fix(nodeRewind(h, m, "small"), m)

\* func (mi *MergeIterator) Rewind()
MergeRewind(h, m) == fix(nodeRewind(nodeRewind(h, m, "small"), m, "big"), m)

Rewind(h, it) ==
    IF IsMerge(h, it) THEN MergeRewind(h, it)
    ELSE [h EXCEPT ![it] = LeafRewind(h[it])]

\* Mutant of MergeSeek: only the small child is repositioned.
MergeSeekSmallOnly(h, m, k) == fix(nodeSeek(h, m, "small", k), m)

\* func (mi *MergeIterator) Seek(key []byte)
MergeSeek(h, m, k) == fix(nodeSeek(nodeSeek(h, m, "small", k), m, "big", k), m)

Seek(h, it, k) ==
    IF IsMerge(h, it) THEN MergeSeek(h, it, k)
    ELSE [h EXCEPT ![it] = LeafSeek(h[it], k)]

(***************************************************************************)
(* func NewMergeIterator(iters []y.Iterator, reverse bool) y.Iterator      *)
(* Returns the heap with the new MergeIterators and the iterator returned. *)
(***************************************************************************)
\* Mutant of NewMerge: second is the iterator that was added first.
NewMergeSecondFirst(h, a, b, rev) ==
    [kind |-> "merge",
     small |-> setIterator(h, ZeroNode, a),
     big |-> setIterator(h, ZeroNode, b),
     second |-> a,
     reverse |-> rev,
     panic |-> FALSE]

\* NewMergeIterator, lines 199-204: the MergeIterator over two iterators.
NewMerge(h, a, b, rev) ==
    [kind |-> "merge",
     small |-> setIterator(h, ZeroNode, a),
     big |-> setIterator(h, ZeroNode, b),
     second |-> b,
     reverse |-> rev,
     panic |-> FALSE]

RECURSIVE NewMergeIterator(_, _, _)

\* Mutant of NewMergeIterator: a single iterator is treated like none.
NewMergeIteratorNilOne(h, its, rev) ==
    IF Len(its) <= 1 THEN [heap |-> h, it |-> Nil]
    ELSE IF Len(its) = 2 THEN
        [heap |-> Append(h, NewMerge(h, its[1], its[2], rev)), it |-> Len(h) + 1]
    ELSE
        LET mid == Len(its) \div 2
            l == NewMergeIterator(h, SubSeq(its, 1, mid), rev)
            r == NewMergeIterator(l.heap, SubSeq(its, mid + 1, Len(its)), rev)
        IN NewMergeIterator(r.heap, <<l.it, r.it>>, rev)

\* Mutant of NewMergeIterator: the two halves are combined right before left.
NewMergeIteratorRightFirst(h, its, rev) ==
    IF Len(its) = 0 THEN [heap |-> h, it |-> Nil]
    ELSE IF Len(its) = 1 THEN [heap |-> h, it |-> its[1]]
    ELSE IF Len(its) = 2 THEN
        [heap |-> Append(h, NewMerge(h, its[1], its[2], rev)), it |-> Len(h) + 1]
    ELSE
        LET mid == Len(its) \div 2
            l == NewMergeIterator(h, SubSeq(its, 1, mid), rev)
            r == NewMergeIterator(l.heap, SubSeq(its, mid + 1, Len(its)), rev)
        IN NewMergeIterator(r.heap, <<r.it, l.it>>, rev)

NewMergeIterator(h, its, rev) ==
    IF Len(its) = 0 THEN [heap |-> h, it |-> Nil]
    ELSE IF Len(its) = 1 THEN [heap |-> h, it |-> its[1]]
    ELSE IF Len(its) = 2 THEN
        [heap |-> Append(h, NewMerge(h, its[1], its[2], rev)), it |-> Len(h) + 1]
    ELSE
        LET mid == Len(its) \div 2
            l == NewMergeIterator(h, SubSeq(its, 1, mid), rev)
            r == NewMergeIterator(l.heap, SubSeq(its, mid + 1, Len(its)), rev)
        IN NewMergeIterator(r.heap, <<l.it, r.it>>, rev)

(***************************************************************************)
(* The program: the tree is built over n sorted sources, then a single     *)
(* driver calls the iterator's methods on the root.                        *)
(***************************************************************************)
Leaves == {i \in DOMAIN heap : heap[i].kind = "leaf"}
Merges == {i \in DOMAIN heap : heap[i].kind = "merge"}

Panicked(h) == \E m \in DOMAIN h : h[m].kind = "merge" /\ h[m].panic

(***************************************************************************)
(* Close.  A leaf's Close fails when the leaf is in fail; c = [cnt, res]   *)
(* records the calls: cnt[i] counts Close on leaf i, res[i] is the error   *)
(* returned by the Close of iterator i.                                    *)
(***************************************************************************)
\* An error: its messages, outermost first, and the failed leaves it reports.
NoErr == [msgs |-> <<>>, causes |-> {}]
NotCalled == [msgs |-> <<"not called">>, causes |-> {}]
LeafErr(i) == [msgs |-> <<"leaf">>, causes |-> {i}]

\* errors.Wrap(err, message): nil for a nil err.
Wrap(err, msg) == IF err = NoErr THEN NoErr ELSE [err EXCEPT !.msgs = <<msg>> \o @]

\* Mutants of CloseResult: only the first error is looked at; the second
\* error is preferred.
CloseResultFirstOnly(err1, err2) == Wrap(err1, "MergeIterator")

CloseResultSecondFirst(err1, err2) ==
    IF err2 /= NoErr THEN Wrap(err2, "MergeIterator")
    ELSE Wrap(err1, "MergeIterator")

\* func (mi *MergeIterator) Close() error, lines 186-189: what it returns for
\* the errors of mi.small.iter.Close() and mi.big.iter.Close().
CloseResult(err1, err2) ==
    IF err1 /= NoErr THEN Wrap(err1, "MergeIterator")
    ELSE Wrap(err2, "MergeIterator")

RECURSIVE Close(_, _, _, _)

\* Mutant of MergeClose: the big child is not closed once the small one failed.
MergeCloseShort(h, m, fail, c) ==
    LET c1 == Close(h, h[m].small.iter, fail, c)
        err1 == c1.res[h[m].small.iter]
        c2 == Close(h, h[m].big.iter, fail, c1)
    IN  IF err1 /= NoErr THEN [c1 EXCEPT !.res[m] = Wrap(err1, "MergeIterator")]
        ELSE [c2 EXCEPT !.res[m] = Wrap(c2.res[h[m].big.iter], "MergeIterator")]

\* func (mi *MergeIterator) Close() error
MergeClose(h, m, fail, c) ==
    LET c1 == Close(h, h[m].small.iter, fail, c)
        c2 == Close(h, h[m].big.iter, fail, c1)
        err1 == c1.res[h[m].small.iter]
        err2 == c2.res[h[m].big.iter]
    IN [c2 EXCEPT !.res[m] = CloseResult(err1, err2)]

Close(h, it, fail, c) ==
    IF IsMerge(h, it) THEN MergeClose(h, it, fail, c)
    ELSE [c EXCEPT !.cnt[it] = @ + 1,
                   !.res[it] = IF it \in fail THEN LeafErr(it) ELSE NoErr]

Built(n, rev, srcs) == NewMergeIterator(srcs, [i \in 1..n |-> i], rev)

Init ==
    \E n \in 0..MaxIters, rev \in BOOLEAN :
        \E lens \in SourceLens(n, MaxTotal) : \E srcs \in SourceLists(n, rev, lens) :
            LET b == Built(n, rev, srcs) IN
            /\ heap = b.heap
            /\ root = b.it
            /\ iters = [i \in 1..n |-> i]
            /\ reverse = rev
            /\ crashed = "none"
            /\ last = [op |-> "New", key |-> NoKey]
            /\ scan = FALSE
            /\ out = <<>>
            /\ closeCnt = [i \in 1..n |-> 0]
            /\ closeRes = [i \in DOMAIN b.heap |-> NotCalled]

Live == crashed = "none" /\ last.op /= "Close"

\* A method called on the nil interface value: a nil dereference panic.
NilCall(op) ==
    /\ root = Nil
    /\ crashed' = "nil"
    /\ last' = [op |-> op, key |-> NoKey]
    /\ UNCHANGED <<heap, iters, reverse, root, scan, out, closeCnt, closeRes>>

Cur(h) == <<Key(h, root), Value(h, root)>>

Moved(h, op, k) ==
    /\ heap' = h
    /\ crashed' = IF Panicked(h) THEN "second" ELSE "none"
    /\ last' = [op |-> op, key |-> k]
    /\ UNCHANGED <<iters, reverse, root, closeCnt, closeRes>>

DoRewind ==
    /\ Live
    /\ \/ NilCall("Rewind")
       \/ /\ root /= Nil
          /\ LET h == Rewind(heap, root) IN
              /\ Moved(h, "Rewind", NoKey)
              /\ scan' = TRUE
              /\ out' = IF Valid(h, root) THEN <<Cur(h)>> ELSE <<>>

DoSeek ==
    /\ Live
    /\ \E k \in Keys :
        \/ NilCall("Seek")
        \/ /\ root /= Nil
           /\ LET h == Seek(heap, root, k) IN
               /\ Moved(h, "Seek", k)
               /\ scan' = FALSE
               /\ out' = <<>>

\* Next is undefined on an iterator that is not valid: the driver calls it
\* only while Valid().
DoNext ==
    /\ Live
    /\ \/ NilCall("Next")
       \/ /\ root /= Nil
          /\ Valid(heap, root)
          /\ LET h == Next(heap, root) IN
              /\ Moved(h, "Next", NoKey)
              /\ scan' = scan
              /\ out' = IF scan /\ Valid(h, root) THEN Append(out, Cur(h)) ELSE out

\* Valid reads mi.small.valid and changes nothing.
DoValid ==
    /\ Live
    /\ \/ NilCall("Valid")
       \/ /\ root /= Nil
          /\ UNCHANGED vars

\* Close is called once, last; each leaf's Close fails or not.
DoClose ==
    /\ Live
    /\ \/ NilCall("Close")
       \/ /\ root /= Nil
          /\ \E fail \in SUBSET Leaves :
              LET c == Close(heap, root, fail, [cnt |-> closeCnt, res |-> closeRes]) IN
              /\ closeCnt' = c.cnt
              /\ closeRes' = c.res
              /\ last' = [op |-> "Close", key |-> NoKey]
              /\ UNCHANGED <<heap, iters, reverse, root, crashed, scan, out>>

Step == DoRewind \/ DoSeek \/ DoNext \/ DoValid \/ DoClose

Spec == Init /\ [][Step]_vars

\* The program up to its Close: Close is the driver's last call and leaves the
\* tree as it is, so the tree's states are those of the other calls.
Nav == DoRewind \/ DoSeek \/ DoNext \/ DoValid

SpecNav == Init /\ [][Nav]_vars

(***************************************************************************)
(* What the claims speak of.                                               *)
(***************************************************************************)
NumIters == Len(iters)
IsTree == NumIters >= 2
Positioned == crashed = "none" /\ last.op \in {"Rewind", "Seek", "Next"}
KeySet(i) == {heap[i].keys[j] : j \in 1..Len(heap[i].keys)}
UnionKeys == UNION {KeySet(i) : i \in Leaves}
Holders(k) == {i \in Leaves : k \in KeySet(i)}
Earliest(k) == CHOOSE i \in Holders(k) : \A j \in Holders(k) : i <= j
AllStrict == \A i \in Leaves : IsStrict(heap[i].keys)
OutKeys == {out[i][1] : i \in 1..Len(out)}
Exchanged(m) == heap[m].small.iter = heap[m].second
InOrder(a, b) == IF reverse THEN a >= b ELSE a <= b
RootValid == Valid(heap, root)
RootKey == Key(heap, root)
RootSource == Value(heap, root)[1]

\* C1: over n >= 2 sorted sources, the keys a Rewind followed by Next calls
\* has produced so far are non-decreasing in forward mode and non-increasing
\* in reverse mode.
C1_GlobalOrder ==
    (IsTree /\ scan) =>
        \A i, j \in 1..Len(out) : i < j => InOrder(out[i][1], out[j][1])

\* A finished traversal of a two-level tree that produced entries of two
\* different sources, one of them with a repeated key.
C1_Witness ==
    /\ NumIters = 3 /\ scan /\ last.op = "Next" /\ ~RootValid
    /\ Len(out) = 3
    /\ \E i, j \in 1..Len(out) : out[i][2][1] /= out[j][2][1]
    /\ ~AllStrict

\* C2: over strictly sorted sources a Rewind-then-Next traversal produces no
\* key twice and no key that is in no source, and when it ends (Valid() is
\* false) it has produced every key of every source.
C2_ExactUnion ==
    (IsTree /\ scan /\ AllStrict /\ crashed = "none") =>
        /\ \A i, j \in 1..Len(out) : i /= j => out[i][1] /= out[j][1]
        /\ OutKeys \subseteq UnionKeys
        /\ ~RootValid => OutKeys = UnionKeys

\* A finished traversal over strict sources in which one key is in two
\* sources and another key in one source only.
C2_Witness ==
    /\ IsTree /\ scan /\ AllStrict /\ ~RootValid /\ last.op = "Next"
    /\ Len(out) = 2
    /\ \E k \in UnionKeys : Cardinality(Holders(k)) >= 2
    /\ \E k \in UnionKeys : Cardinality(Holders(k)) = 1

\* C3: whenever the root is valid at a key that more than one source holds,
\* after Rewind, Seek or Next, in either direction, Value() is the value of
\* the source listed earliest among those that hold the key.
C3_EarliestWins ==
    (IsTree /\ Positioned /\ RootValid /\ Cardinality(Holders(RootKey)) >= 2) =>
        RootSource = Earliest(RootKey)

\* In reverse mode, a Next has brought the root of a two-level tree to a key
\* that two sources hold, neither of them the first source.
C3_Witness ==
    /\ NumIters = 3 /\ reverse /\ last.op = "Next" /\ crashed = "none" /\ RootValid
    /\ Cardinality(Holders(RootKey)) >= 2
    /\ RootSource = 2

\* C4: after Seek(K) from any state, Valid() is false exactly when no source
\* holds a key >= K (forward; <= K in reverse mode); otherwise Key() is the
\* smallest such key (the largest in reverse mode) and Value() is the value
\* of the earliest-listed source that holds it.
SeekHits == {k \in UnionKeys : InOrder(last.key, k)}

C4_SeekCorrect ==
    (IsTree /\ crashed = "none" /\ last.op = "Seek") =>
        /\ RootValid <=> SeekHits /= {}
        /\ RootValid =>
            /\ RootKey \in SeekHits
            /\ \A k \in SeekHits : InOrder(RootKey, k)
            /\ RootSource = Earliest(RootKey)

\* A Seek issued in a two-level tree landed on a key other than the one
\* sought, held by two sources.
C4_Witness ==
    /\ NumIters = 3 /\ last.op = "Seek" /\ RootValid
    /\ RootKey /= last.key
    /\ Cardinality(Holders(RootKey)) >= 2

\* C5: with zero iterators, Valid() and Close() on what NewMergeIterator
\* returned can be called without failing.
C5_ZeroSourcesSafe ==
    (NumIters = 0 /\ last.op \in {"Valid", "Close"}) => crashed = "none"

\* C6: with exactly one iterator NewMergeIterator returns that iterator and
\* creates no MergeIterator; Rewind, Seek, Next and Close on the result are
\* the input iterator's own.
C6_SingleUnwrapped ==
    NumIters = 1 =>
        /\ root = iters[1]
        /\ Merges = {}
        /\ last.op = "Rewind" => heap[iters[1]].pos = 1
        /\ last.op = "Seek" =>
              (LeafValid(heap[iters[1]]) <=> \E k \in KeySet(iters[1]) : InOrder(last.key, k))
        /\ last.op = "Close" => closeCnt[iters[1]] = 1

\* The single source has been advanced through the result.
C6_Witness ==
    NumIters = 1 /\ last.op = "Next" /\ root = 1 /\ heap[1].pos = 2 /\ RootValid

\* C7: one Close on the root of a tree over n >= 2 sources calls Close on
\* every leaf source exactly once, whatever the cursor state and whichever
\* leaves fail.
Closed == last.op = "Close" /\ crashed = "none"
Failed(i) == closeRes[i] /= NoErr

C7_CloseEveryLeafOnce ==
    (IsTree /\ Closed) => \A i \in Leaves : closeCnt[i] = 1

\* A two-level tree closed while the root's small and big were exchanged,
\* with the Close of the first leaf reached failing.
C7_Witness ==
    /\ NumIters = 3 /\ Closed /\ Exchanged(root)
    /\ \E m \in Merges : Failed(heap[m].small.iter)
    /\ \A i \in Leaves : closeCnt[i] = 1

\* C8: the Close of a MergeIterator returns a non-nil error if and only if
\* the Close of at least one of its two children did.
C8_CloseErrorIff ==
    Closed =>
        \A m \in Merges :
            /\ closeRes[m] /= NotCalled
            /\ Failed(m) <=> (Failed(heap[m].small.iter) \/ Failed(heap[m].big.iter))

\* Only the child in the big slot failed, and the failure is returned.
C8_Witness ==
    /\ Closed
    /\ \E m \in Merges :
          ~Failed(heap[m].small.iter) /\ Failed(heap[m].big.iter) /\ Failed(m)

\* C9 as claimed: when both children fail on Close, the error the
\* MergeIterator returns reports the failures of both.
BothFailed(m) == Failed(heap[m].small.iter) /\ Failed(heap[m].big.iter)

C9_CombinedError ==
    Closed =>
        \A m \in Merges :
            BothFailed(m) =>
                (closeRes[heap[m].small.iter].causes \cup closeRes[heap[m].big.iter].causes)
                    \subseteq closeRes[m].causes

\* C9 as amended: when both children fail on Close, the MergeIterator returns
\* the error of the child in its small slot, wrapped, and nothing of the
\* error of the child in its big slot.
C9_FirstErrorOnly ==
    Closed =>
        \A m \in Merges :
            BothFailed(m) =>
                /\ closeRes[m] = Wrap(closeRes[heap[m].small.iter], "MergeIterator")
                /\ closeRes[m].causes = closeRes[heap[m].small.iter].causes

\* Both children of an exchanged MergeIterator failed: the error returned is
\* that of the iterator that was added second.
C9_Witness ==
    /\ Closed
    /\ \E m \in Merges :
          /\ BothFailed(m) /\ Exchanged(m)
          /\ closeRes[m].causes = closeRes[heap[m].second].causes

\* C10: invariant I1.  At every MergeIterator, after every completed call on
\* the root, when small and big are both valid then small.key <= big.key in
\* forward mode and small.key >= big.key in reverse mode.
I1(m) ==
    (heap[m].small.valid /\ heap[m].big.valid) =>
        IF heap[m].reverse
        THEN CompareKeys(heap[m].small.key, heap[m].big.key) >= 0
        ELSE CompareKeys(heap[m].small.key, heap[m].big.key) <= 0

C10_I1 == crashed = "none" => \A m \in Merges : I1(m)

\* In reverse mode a Next left the root of a two-level tree exchanged, with
\* both of its nodes valid.
C10_Witness ==
    /\ NumIters = 3 /\ reverse /\ last.op = "Next" /\ crashed = "none"
    /\ heap[root].small.valid /\ heap[root].big.valid
    /\ Exchanged(root)

\* C11: over strictly sorted sources, one Next on a root that is valid at key
\* K leaves the root invalid when no source holds a key beyond K in the
\* direction of the traversal, and otherwise valid at the key that follows K
\* in the union of the sources' keys: it neither stays on K nor skips a key.
Beyond(k) == {x \in UnionKeys : x /= k /\ InOrder(k, x)}

C11_NextOneKey ==
    (IsTree /\ AllStrict /\ Positioned /\ RootValid) =>
        LET h == Next(heap, root)
            b == Beyond(RootKey)
        IN  IF b = {} THEN ~Valid(h, root)
            ELSE /\ Valid(h, root)
                 /\ Key(h, root) \in b
                 /\ \A x \in b : InOrder(Key(h, root), x)

\* In a two-level tree a Next has moved the root from a key that two sources
\* hold to the key that follows it.
C11_Witness ==
    /\ NumIters = 3 /\ AllStrict /\ scan /\ last.op = "Next" /\ RootValid
    /\ Len(out) = 2
    /\ Cardinality(Holders(out[1][1])) = 2
    /\ RootKey = out[2][1] /\ RootKey /= out[1][1]

\* C12 as claimed: from construction onward, between the calls on the root,
\* every node's valid equals its child's Valid() and, when valid, its key
\* equals its child's Key().
InSync(m, s) ==
    LET n == heap[m][s] IN
    /\ n.valid = Valid(heap, n.iter)
    /\ n.valid => n.key = Key(heap, n.iter)

AllInSync == \A m \in Merges : InSync(m, "small") /\ InSync(m, "big")

C12_CacheFromConstruction == crashed = "none" => AllInSync

\* C12 as amended: once the root has been positioned by Rewind or Seek, after
\* every Rewind, Seek and Next every node's valid equals its child's Valid()
\* and, when valid, its key equals its child's Key(); before that every node
\* is invalid whatever its child's position.
C12_CacheOncePositioned ==
    /\ Positioned => AllInSync
    /\ last.op = "New" =>
          \A m \in Merges : ~heap[m].small.valid /\ ~heap[m].big.valid

\* After a Next, a nested MergeIterator that is some node's second has been
\* moved off its first entry and the node wrapping it is valid.
C12_Witness ==
    /\ Positioned /\ last.op = "Next" /\ AllInSync
    /\ \E m \in Merges : \E s \in {"small", "big"} :
          /\ heap[m][s].iter = heap[m].second
          /\ IsMerge(heap, heap[m].second)
          /\ heap[m][s].valid
          /\ Value(heap, heap[m].second)[2] >= 2

\* C13: every call of fix terminates.  Each round of its loop on equal keys
\* forwards second by exactly one entry, so the loop makes at most as many
\* rounds as second has entries left; and every Next on a valid root uses up
\* an entry of some source, so repeated Next ends with Valid() false.
RECURSIVE Count(_, _)
\* The entries iterator it still yields: the Next calls until it is invalid.
Count(h, it) == IF ~Valid(h, it) THEN 0 ELSE 1 + Count(Next(h, it), it)

\* Whether the loop of fix, in heap h, is about to forward second.
OnEqual(h, m) ==
    /\ h[m].big.valid /\ h[m].small.valid
    /\ CompareKeys(h[m].small.key, h[m].big.key) = 0

SecondNode(h, m) == IF h[m].small.iter = h[m].second THEN h[m].small ELSE h[m].big

\* The rounds the loop of fix makes from heap h.
RECURSIVE fixSpins(_, _)
fixSpins(h, m) ==
    IF ~OnEqual(h, m) THEN 0
    ELSE LET h2 == forwardSecond(h, m) IN
         IF h2[m].panic \/ ~SecondNode(h2, m).valid THEN 1 ELSE 1 + fixSpins(h2, m)

\* Every round of the loop from heap h forwards second by one entry.
RECURSIVE FixAdvances(_, _)
FixAdvances(h, m) ==
    OnEqual(h, m) =>
        LET h2 == forwardSecond(h, m) IN
        /\ Count(h2, h[m].second) = Count(h, h[m].second) - 1
        /\ (~h2[m].panic /\ SecondNode(h2, m).valid) => FixAdvances(h2, m)

FixBounded(h, m) ==
    /\ FixAdvances(h, m)
    /\ OnEqual(h, m) => fixSpins(h, m) <= Count(h, h[m].second)

\* The heaps in which the root's Rewind, Seek and Next call fix.
PreFixRewind == nodeRewind(nodeRewind(heap, root, "small"), root, "big")
PreFixSeek(k) == nodeSeek(nodeSeek(heap, root, "small", k), root, "big", k)
PreFixNext == nodeNext(heap, root, "small")

RECURSIVE Remaining(_, _)
\* The entries at or after the positions of the leaves 1..n.
Remaining(h, n) ==
    IF n = 0 THEN 0 ELSE Remaining(h, n - 1) + (Len(h[n].keys) + 1 - h[n].pos)

C13_FixTerminates ==
    (IsTree /\ crashed = "none") =>
        /\ FixBounded(PreFixRewind, root)
        /\ \A k \in Keys : FixBounded(PreFixSeek(k), root)
        /\ (Positioned /\ RootValid) =>
              LET left == Remaining(Next(heap, root), NumIters) IN
              /\ FixBounded(PreFixNext, root)
              /\ left < Remaining(heap, NumIters)
              /\ left >= 0

\* A Rewind whose fix went round its loop twice, second holding one key twice.
C13_Witness ==
    /\ IsTree /\ last.op = "Rewind" /\ crashed = "none"
    /\ fixSpins(PreFixRewind, root) = 2
    /\ Count(PreFixRewind, heap[root].second) = 2

\* C14: for n >= 2 NewMergeIterator builds a binary tree of MergeIterators
\* whose leaves, read left to right, are the input iterators in their order,
\* each once; whose depth is ceil(log2 n); and in which at every
\* MergeIterator second is the right subtree (in the big slot at
\* construction) and reverse is the flag passed to the builder.
RightOf(m) == heap[m].second
LeftOf(m) ==
    IF heap[m].small.iter = heap[m].second THEN heap[m].big.iter ELSE heap[m].small.iter

RECURSIVE Flat(_)
Flat(it) == IF IsMerge(heap, it) THEN Flat(LeftOf(it)) \o Flat(RightOf(it)) ELSE <<it>>

RECURSIVE Depth(_)
Depth(it) ==
    IF IsMerge(heap, it)
    THEN 1 + (IF Depth(LeftOf(it)) >= Depth(RightOf(it))
              THEN Depth(LeftOf(it)) ELSE Depth(RightOf(it)))
    ELSE 0

RECURSIVE Pow2(_)
Pow2(d) == IF d = 0 THEN 1 ELSE 2 * Pow2(d - 1)

CeilLog2(n) == CHOOSE d \in 0..n : Pow2(d) >= n /\ \A e \in 0..(d - 1) : Pow2(e) < n

RECURSIVE NextGeneric(_, _)
RECURSIVE RewindGeneric(_, _)
RECURSIVE SeekGeneric(_, _, _)
RECURSIVE fixLoopGeneric(_, _)

setKeyGeneric(h, m, s) ==
    LET n == h[m][s]
        v == Valid(h, n.iter)
        k == IF v THEN Key(h, n.iter) ELSE n.key
    IN [h EXCEPT ![m][s] = [n EXCEPT !.valid = v, !.key = k]]

nodeNextGeneric(h, m, s) == setKeyGeneric(NextGeneric(h, h[m][s].iter), m, s)

nodeRewindGeneric(h, m, s) == setKeyGeneric(RewindGeneric(h, h[m][s].iter), m, s)

nodeSeekGeneric(h, m, s, k) == setKeyGeneric(SeekGeneric(h, h[m][s].iter, k), m, s)

forwardSecondGeneric(h, m) ==
    LET second == h[m].second
        h1 == NextGeneric(h, second)
    IN  IF second = h1[m].small.iter THEN setKeyGeneric(h1, m, "small")
        ELSE IF second = h1[m].big.iter THEN setKeyGeneric(h1, m, "big")
        ELSE [h1 EXCEPT ![m].panic = TRUE]

fixEqualGeneric(h, m) ==
    LET second == h[m].second
        h2 == forwardSecondGeneric(h, m)
        secondValid == IF second = h2[m].small.iter THEN h2[m].small.valid
                       ELSE IF second = h2[m].big.iter THEN h2[m].big.valid
                       ELSE FALSE
    IN  IF h2[m].panic THEN h2
        ELSE IF ~secondValid THEN
            IF second = h2[m].small.iter /\ h2[m].big.valid
            THEN swap(h2, m) ELSE h2
        ELSE fixLoopGeneric(h2, m)

fixLoopGeneric(h, m) ==
    IF ~h[m].small.valid THEN swap(h, m)
    ELSE
        LET cmp == CompareKeys(h[m].small.key, h[m].big.key) IN
        IF cmp = 0 THEN fixEqualGeneric(h, m) ELSE fixUnequal(h, m, cmp)

fixGeneric(h, m) == IF ~h[m].big.valid THEN h ELSE fixLoopGeneric(h, m)

NextGeneric(h, it) ==
    IF IsMerge(h, it) THEN fixGeneric(nodeNextGeneric(h, it, "small"), it)
    ELSE [h EXCEPT ![it] = LeafNext(h[it])]

RewindGeneric(h, it) ==
    IF IsMerge(h, it)
    THEN fixGeneric(nodeRewindGeneric(nodeRewindGeneric(h, it, "small"), it, "big"), it)
    ELSE [h EXCEPT ![it] = LeafRewind(h[it])]

SeekGeneric(h, it, k) ==
    IF IsMerge(h, it)
    THEN fixGeneric(nodeSeekGeneric(nodeSeekGeneric(h, it, "small", k), it, "big", k), it)
    ELSE [h EXCEPT ![it] = LeafSeek(h[it], k)]

\* The program with every nested iterator reached through the generic
\* y.Iterator calls: the calls of SpecNav, run on the generic path.
DoRewindGeneric ==
    /\ Live
    /\ \/ NilCall("Rewind")
       \/ /\ root /= Nil
          /\ LET h == RewindGeneric(heap, root) IN
              /\ Moved(h, "Rewind", NoKey)
              /\ scan' = TRUE
              /\ out' = IF Valid(h, root) THEN <<Cur(h)>> ELSE <<>>

DoSeekGeneric ==
    /\ Live
    /\ \E k \in Keys :
        \/ NilCall("Seek")
        \/ /\ root /= Nil
           /\ LET h == SeekGeneric(heap, root, k) IN
               /\ Moved(h, "Seek", k)
               /\ scan' = FALSE
               /\ out' = <<>>

DoNextGeneric ==
    /\ Live
    /\ \/ NilCall("Next")
       \/ /\ root /= Nil
          /\ Valid(heap, root)
          /\ LET h == NextGeneric(heap, root) IN
              /\ Moved(h, "Next", NoKey)
              /\ scan' = scan
              /\ out' = IF scan /\ Valid(h, root) THEN Append(out, Cur(h)) ELSE out

NavGeneric == DoRewindGeneric \/ DoSeekGeneric \/ DoNextGeneric \/ DoValid

SpecGeneric == Init /\ [][NavGeneric]_vars

\* C15: the fast path equals the generic path.  From every state the
\* generic path reaches, Rewind, Seek and Next run with the fast path
\* (nested MergeIterators read and advanced directly) leave the same tree -
\* the same cached valid and key in every node, the same root Valid(),
\* Key() and Value() - as run with the generic calls; so the two paths
\* agree after every sequence of calls.
C15_FastEqualsGeneric ==
    (IsTree /\ crashed = "none") =>
        /\ Rewind(heap, root) = RewindGeneric(heap, root)
        /\ \A k \in Keys : Seek(heap, root, k) = SeekGeneric(heap, root, k)
        /\ (Positioned /\ RootValid) => Next(heap, root) = NextGeneric(heap, root)

\* After a Next the root's small is a nested MergeIterator, which the fast
\* path reads and advances directly, and the node that wraps it is valid on
\* the key of the nested iterator's small.
C15_Witness ==
    /\ NumIters = 3 /\ last.op = "Next" /\ crashed = "none"
    /\ heap[root].small.merge /= Nil
    /\ heap[root].small.valid
    /\ heap[root].small.key = heap[heap[root].small.merge].small.key
    /\ heap[root].big.valid

\* C16: under every sequence of Rewind, Seek and Next the two slots of every
\* MergeIterator hold the two child iterators it was built with, exchanged
\* or not, and second is the iterator of exactly one of them; the panic
\* "mi.second invalid" is never reached.
AsBuilt == NewMergeIterator([i \in 1..NumIters |-> heap[i]], iters, reverse).heap

C16_SlotsFixed ==
    IsTree =>
        LET b == AsBuilt IN
        /\ crashed /= "second"
        /\ \A m \in Merges :
              /\ ~heap[m].panic
              /\ {heap[m].small.iter, heap[m].big.iter} = {b[m].small.iter, b[m].big.iter}
              /\ heap[m].small.iter /= heap[m].big.iter
              /\ heap[m].second = b[m].second
              /\ (heap[m].second = heap[m].small.iter) /= (heap[m].second = heap[m].big.iter)

\* Every MergeIterator of a two-level tree has its slots exchanged.
C16_Witness ==
    /\ NumIters = 3 /\ Positioned
    /\ \A m \in Merges : Exchanged(m) /\ heap[m].small.valid /\ heap[m].big.valid

\* C17: after every completed Rewind, Seek or Next, at every MergeIterator
\* small is invalid only if big is invalid too; so the MergeIterator is
\* invalid exactly when both of its children are.
C17_Exhaustion ==
    Positioned =>
        \A m \in Merges :
            /\ ~heap[m].small.valid => ~heap[m].big.valid
            /\ ~Valid(heap, m) <=>
                  (~Valid(heap, heap[m].small.iter) /\ ~Valid(heap, heap[m].big.iter))

\* After a Next, a MergeIterator of a two-level tree reports the child that
\* was added second, the other child being exhausted.
C17_Witness ==
    /\ NumIters = 3 /\ last.op = "Next" /\ crashed = "none"
    /\ \E m \in Merges :
          Exchanged(m) /\ heap[m].small.valid /\ ~heap[m].big.valid

\* C18: over strictly sorted sources, after every completed Rewind, Seek or
\* Next, at every MergeIterator whose small and big are both valid the two
\* keys differ: small.key < big.key in forward mode, > in reverse mode.
C18_StrictSeparation ==
    (Positioned /\ AllStrict) =>
        \A m \in Merges :
            (heap[m].small.valid /\ heap[m].big.valid) =>
                /\ heap[m].small.key /= heap[m].big.key
                /\ InOrder(heap[m].small.key, heap[m].big.key)

\* In a two-level tree over strict sources a MergeIterator reports a key
\* that both of its subtrees hold, with its big still valid.
C18_Witness ==
    /\ NumIters = 3 /\ Positioned /\ AllStrict
    /\ \E m \in Merges :
          /\ heap[m].small.valid /\ heap[m].big.valid
          /\ Cardinality(Holders(heap[m].small.key)) = 2

\* C19: Rewind does not depend on the calls before it.  From every reachable
\* state a Rewind followed by Next calls yields the same sequence of keys
\* and values as on the tree freshly built over the same sources, and a
\* second Rewind right after the first changes nothing of it.
RECURSIVE Trav(_)
Trav(h) ==
    IF ~Valid(h, root) THEN <<>>
    ELSE <<<<Key(h, root), Value(h, root)>>>> \o Trav(Next(h, root))

Fresh ==
    NewMergeIterator([i \in 1..NumIters |-> [heap[i] EXCEPT !.pos = 0]], iters, reverse).heap

C19_RewindHistoryFree ==
    (IsTree /\ crashed = "none") =>
        LET r == Rewind(heap, root) IN
        /\ Trav(r) = Trav(Rewind(Fresh, root))
        /\ Rewind(r, root) = r

\* An exhausted two-level tree with an exchanged MergeIterator, over sources
\* whose traversal has two entries.
C19_Witness ==
    /\ NumIters = 3 /\ last.op = "Next" /\ ~RootValid /\ crashed = "none"
    /\ \E m \in Merges : Exchanged(m)
    /\ Len(Trav(Rewind(heap, root))) = 2

====
